---- MODULE Spec2Model ----
(***************************************************************************)
(* Model of the unified file-system abstraction of MyAiEditor:             *)
(*   FileSystemManager   (src/unnamed/part_004)                            *)
(*   RemoteFileSystem    (src/services/RemoteFileSystem.ts)                *)
(*   LocalFileSystem     (src/services/LocalFileSystem.ts)                 *)
(*   WebSocketSSHService (src/services/SecureCredentialStore.ts, from 241) *)
(* JavaScript runs one macrotask at a time: an action is one API call up   *)
(* to its first suspension, or one channel event / timer callback together *)
(* with every promise continuation it releases.                            *)
(***************************************************************************)
EXTENDS Naturals, Integers, Sequences, FiniteSets, TLC

\* ---- bounds -------------------------------------------------------------
\* Asynchronous Transport calls in one behaviour of each specification, and
\* how many of them are connect calls (each creates one channel) or requests.
MaxCalls == 2        \* Spec
MaxConnects == 1
MaxRequests == 3     \* SpecRequests
ReqConnects == 1
LifeCalls == 3       \* SpecLifecycle
LifeConnects == 2
LifeOps == 1
StreamCalls == 2     \* SpecStreaming
MaxChunks == 2
MaxEntries == 2      \* SpecListing
FileCalls == 4       \* SpecFiles
CredCalls == 3       \* SpecCredentials
CredConnects == 2

\* ---- data ---------------------------------------------------------------
RootPath == "/"
HomePath == "/home/u"
DocumentDirectory == "/doc"
Paths == {"/data"}
InitialPaths == {"", "/work"}
OpKinds == {"list", "read", "write", "exec"}
Callbacks == {1, 2}
FilePaths == {"/f", "/g"}
Contents == {"a", "b"}

VARIABLES
  selector,        \* FileSystemManager.currentFileSystem
  socket,          \* WebSocketSSHService.socket (0 = null, else a channel id)
  connected,       \* WebSocketSSHService.connected
  currentPath,     \* WebSocketSSHService.currentPath
  connectionInfo,  \* WebSocketSSHService.connectionInfo (set = FALSE is null)
  localPath,       \* LocalFileSystem.currentPath
  sockets,         \* every channel io() created and its state
  calls,           \* every asynchronous Transport call: promise, timer, listeners
  lastCall,        \* the latest API call or completion and what it observed
  hist,            \* what has happened since the last successful connect
  streamingCallback, \* WebSocketSSHService.streamingCallback (0 = null)
  received,        \* per callback function, the output chunks it was called with
  chunks,          \* command-output events received so far, on any channel
  listed,          \* the latest listing: who made it, from what, and its result
  cred,            \* the credentials of the latest connect call, and the
                   \* credential fields the Transport's fields were set from
  store,           \* file contents on the device and at the broker, the
                   \* payload of each request, and the latest write-then-read
  probed,          \* the latest pathExists call: the storage it ran against,
                   \* its argument and what it returned
  term,            \* the Terminal component: its state hooks, its
                   \* initialisation chain and the calls it is awaiting
  vault            \* SecureCredentialStore: the keystore items and the
                   \* position and local variables of each call in progress

vars == <<selector, socket, connected, currentPath, connectionInfo, localPath,
          sockets, calls, lastCall, hist, streamingCallback, received, chunks,
          listed, cred, store, probed, term, vault>>

\* The program state as one record; every handler maps a state to a state.
Cur ==
  [selector |-> selector, socket |-> socket, connected |-> connected,
   currentPath |-> currentPath, connectionInfo |-> connectionInfo,
   localPath |-> localPath, sockets |-> sockets, calls |-> calls,
   lastCall |-> lastCall, hist |-> hist,
   streamingCallback |-> streamingCallback, received |-> received,
   chunks |-> chunks, listed |-> listed, cred |-> cred,
   store |-> store, probed |-> probed, term |-> term, vault |-> vault]

Assign(T) ==
  /\ selector' = T.selector
  /\ socket' = T.socket
  /\ connected' = T.connected
  /\ currentPath' = T.currentPath
  /\ connectionInfo' = T.connectionInfo
  /\ localPath' = T.localPath
  /\ sockets' = T.sockets
  /\ calls' = T.calls
  /\ lastCall' = T.lastCall
  /\ hist' = T.hist
  /\ streamingCallback' = T.streamingCallback
  /\ received' = T.received
  /\ chunks' = T.chunks
  /\ listed' = T.listed
  /\ cred' = T.cred
  /\ store' = T.store
  /\ probed' = T.probed
  /\ term' = T.term
  /\ vault' = T.vault

NoInfo == [set |-> FALSE, host |-> "", username |-> "", currentPath |-> ""]

\* The path "/" as a string of characters.
RootSeq == << "/" >>

\* No pathExists call has been made.
NoProbe ==
  [by |-> "none", tree |-> {}, cwd |-> << >>, path |-> << >>,
   listing |-> "none", outcome |-> "ok", result |-> FALSE]

\* The Terminal as mounted: useState initial values, no timer, no call awaited.
NoTerminal ==
  [isExecuting |-> FALSE, hasInitializedDirectory |-> FALSE,
   init |-> "none", initCall |-> 0, userCall |-> 0]

\* The keystore before any credential was saved, and no call in progress.
EmptyVault == [list |-> {}, secrets |-> {}, ops |-> << >>]

\* ---- WebSocketSSHService: status queries ----------------------------------
SocketConnected(S) ==
  S.socket # 0 /\ S.sockets[S.socket].state = "open"

isConnected(S) == S.connected /\ SocketConnected(S)

getCurrentPath(S) == S.currentPath

getConnectionInfo(S) ==
  [connected |-> S.connected, source |-> "remote", details |-> S.connectionInfo]

\* ---- observation of API calls --------------------------------------------
\* op: the API operation; sel: the selector when it was called; backend: the
\* backend object that ran it; outcome: ok / pending / error kind; conn: what
\* the Remote Backend's isConnected() reported when it was called; emitted:
\* the call put a request on the channel (filled in by Observe).
LC(S, op, backend, outcome) ==
  [at |-> "call", op |-> op, sel |-> S.selector, backend |-> backend,
   outcome |-> outcome, conn |-> isConnected(S), emitted |-> FALSE]

\* What the call that took S to T did to the channel.
Observe(S, T) ==
  [T EXCEPT !.lastCall.emitted =
     \E c \in (Len(S.calls) + 1)..Len(T.calls) : T.calls[c].emitted]

\* The completion of an asynchronous call, as its caller observes it.
Done(S, op, outcome) ==
  [LC(S, op, "remote", outcome) EXCEPT !.at = "done", !.conn = FALSE]

\* ---- WebSocketSSHService: asynchronous calls -----------------------------
\* One record per call that suspended on the channel.  kind/phase say which
\* promise it is waiting on; sock is the channel its reply listeners were
\* registered on (and its request emitted on); hsSock the channel of its
\* handshake listeners; hsL/hsErrL/succL/errL say which once-listeners are
\* still registered; status/err is the promise; from is the call whose reply
\* settled it.
NewCall(kind, phase, sock, hsSock, path, cd) ==
  [kind |-> kind, phase |-> phase, sock |-> sock, hsSock |-> hsSock,
   hsL |-> (phase = "handshake"), hsErrL |-> (phase = "handshake"),
   succL |-> (phase = "reply"),
   errL |-> (phase = "reply" /\ kind # "disconnect"),
   timer |-> "armed", status |-> "pending", err |-> "none",
   path |-> path, cd |-> cd, emitted |-> (phase = "reply"),
   answered |-> FALSE, from |-> 0]

\* socket.disconnect(): the channel is closed for good and its listeners go
\* with it.
RECURSIVE DropListeners(_, _)
DropListeners(cs, s) ==
  IF cs = << >> THEN << >>
  ELSE LET k == Head(cs) IN
       << [k EXCEPT !.succL = IF k.sock = s THEN FALSE ELSE @,
                    !.errL = IF k.sock = s THEN FALSE ELSE @,
                    !.hsL = IF k.hsSock = s THEN FALSE ELSE @,
                    !.hsErrL = IF k.hsSock = s THEN FALSE ELSE @] >>
       \o DropListeners(Tail(cs), s)

\* cleanup(): closes and forgets the channel the Transport holds NOW.
cleanup(S) ==
  [S EXCEPT !.sockets = IF S.socket # 0
                        THEN [S.sockets EXCEPT ![S.socket].state = "closed"]
                        ELSE S.sockets,
            !.calls = IF S.socket # 0 THEN DropListeners(S.calls, S.socket)
                      ELSE S.calls,
            !.socket = 0,
            !.connected = FALSE,
            !.currentPath = RootPath,
            !.connectionInfo = NoInfo,
            !.cred.kept = {},
            !.hist.clean = FALSE]

connect_EmitsAtOnce(S, initialPath) ==
  LET n == Len(S.sockets) + 1 IN
  [S EXCEPT !.sockets = Append(S.sockets, [state |-> "opening"]),
            !.socket = n,
            !.calls = Append(S.calls,
                        NewCall("connect", "reply", n, n, initialPath, FALSE)),
            !.hist.clean = FALSE,
            !.lastCall = LC(S, "connectToRemote", "remote", "pending")]

\* connect(), lines up to the first await: io(), setupSocketHandlers(),
\* waitForSocketConnection() (a fresh channel is never connected yet).
connect(S, initialPath) ==
  LET n == Len(S.sockets) + 1 IN
  [S EXCEPT !.sockets = Append(S.sockets, [state |-> "opening"]),
            !.socket = n,
            !.calls = Append(S.calls,
                        NewCall("connect", "handshake", 0, n, initialPath, FALSE)),
            !.hist.clean = FALSE,
            !.lastCall = LC(S, "connectToRemote", "remote", "pending")]

connectSucceeded_FlagNotSet(S, c) ==
  LET p == IF S.calls[c].path # "" THEN S.calls[c].path ELSE HomePath IN
  [S EXCEPT !.currentPath = p,
            !.connectionInfo = [set |-> TRUE, host |-> "h", username |-> "u",
                                currentPath |-> p],
            !.selector = "remote",
            !.hist = [everConnected |-> TRUE, noDisc |-> TRUE,
                      clean |-> (S.socket # 0 /\ S.socket = S.calls[c].sock
                                 /\ \A d \in 1..Len(S.calls) :
                                      ~(S.calls[d].kind = "disconnect"
                                        /\ S.calls[d].status = "pending"))],
            !.lastCall = Done(S, "connectToRemote", "ok")]

connectSucceeded_IgnoresInitialPath(S, c) ==
  [S EXCEPT !.connected = TRUE,
            !.currentPath = HomePath,
            !.connectionInfo = [set |-> TRUE, host |-> "h", username |-> "u",
                                currentPath |-> HomePath],
            !.selector = "remote",
            !.hist = [everConnected |-> TRUE, noDisc |-> TRUE,
                      clean |-> (S.socket # 0 /\ S.socket = S.calls[c].sock
                                 /\ \A d \in 1..Len(S.calls) :
                                      ~(S.calls[d].kind = "disconnect"
                                        /\ S.calls[d].status = "pending"))],
            !.lastCall = Done(S, "connectToRemote", "ok")]

connectSucceeded_KeepsCredentials(S, c) ==
  LET p == IF S.calls[c].path # "" THEN S.calls[c].path ELSE HomePath IN
  [S EXCEPT !.connected = TRUE,
            !.currentPath = p,
            !.connectionInfo = [set |-> TRUE, host |-> "h", username |-> "u",
                                currentPath |-> p],
            !.cred.kept = {"host", "username", "password", "privateKey",
                           "initialPath"},
            !.selector = "remote",
            !.hist = [everConnected |-> TRUE, noDisc |-> TRUE,
                      clean |-> (S.socket # 0 /\ S.socket = S.calls[c].sock
                                 /\ \A d \in 1..Len(S.calls) :
                                      ~(S.calls[d].kind = "disconnect"
                                        /\ S.calls[d].status = "pending"))],
            !.lastCall = Done(S, "connectToRemote", "ok")]

\* connect() and connectToRemote() after connectSSH resolved true.
\* cred.kept names the fields of the credentials the assignments read.
connectSucceeded(S, c) ==
  LET p == IF S.calls[c].path # "" THEN S.calls[c].path ELSE HomePath IN
  [S EXCEPT !.connected = TRUE,
            !.currentPath = p,
            !.connectionInfo = [set |-> TRUE, host |-> "h", username |-> "u",
                                currentPath |-> p],
            !.cred.kept = IF S.calls[c].path # ""
                          THEN {"host", "username", "initialPath"}
                          ELSE {"host", "username"},
            !.selector = "remote",
            !.hist = [everConnected |-> TRUE, noDisc |-> TRUE,
                      clean |-> (S.socket # 0 /\ S.socket = S.calls[c].sock
                                 /\ \A d \in 1..Len(S.calls) :
                                      ~(S.calls[d].kind = "disconnect"
                                        /\ S.calls[d].status = "pending"))],
            !.lastCall = Done(S, "connectToRemote", "ok")]

connectFailed_SwitchesAnyway(S, c) ==
  LET T == cleanup(S) IN
  [T EXCEPT !.selector = "remote",
            !.lastCall = Done(S, "connectToRemote", S.calls[c].err)]

connectFailed_NoTeardown(S, c) ==
  [S EXCEPT !.lastCall = Done(S, "connectToRemote", S.calls[c].err)]

\* connect() catch block, and connectToRemote() propagating the rejection.
connectFailed(S, c) ==
  LET T == cleanup(S) IN
  [T EXCEPT !.lastCall = Done(S, "connectToRemote", S.calls[c].err)]

\* connectSSH(), entered when the handshake promise of call c resolved.
connectSSH(S, c) ==
  IF S.socket = 0
  THEN LET T == [S EXCEPT !.calls[c].status = "rejected",
                          !.calls[c].err = "NoSocket",
                          !.calls[c].phase = "reply"]
       IN connectFailed(T, c)
  ELSE [S EXCEPT !.calls[c].phase = "reply",
                 !.calls[c].timer = "armed",
                 !.calls[c].succL = TRUE,
                 !.calls[c].errL = TRUE,
                 !.calls[c].sock = S.socket,
                 !.calls[c].emitted = TRUE]

changeDirectoryDone_PathOnly(S, c) ==
  [S EXCEPT !.currentPath = S.calls[c].path,
            !.lastCall = Done(S, "changeDirectory", "ok")]

\* changeDirectory() after its listing resolved.
changeDirectoryDone(S, c) ==
  [S EXCEPT !.currentPath = S.calls[c].path,
            !.connectionInfo = IF S.connectionInfo.set
                               THEN [S.connectionInfo EXCEPT
                                       !.currentPath = S.calls[c].path]
                               ELSE S.connectionInfo,
            !.lastCall = Done(S, "changeDirectory", "ok")]

disconnectDone_KeepsSelector(S) ==
  LET T == cleanup(S) IN
  [T EXCEPT !.lastCall = Done(S, "disconnectFromRemote", "ok")]

\* disconnect() after its wait, and disconnectFromRemote() after the await.
disconnectDone(S) ==
  LET T == cleanup(S) IN
  [T EXCEPT !.selector = "local",
            !.lastCall = Done(S, "disconnectFromRemote", "ok")]

disconnect_NoWait(S) ==
  disconnectDone([S EXCEPT !.hist.noDisc = FALSE, !.hist.clean = FALSE])

\* disconnect(), lines up to the await (or to the end when not connected).
disconnect(S) ==
  LET H == [S EXCEPT !.hist.noDisc = FALSE, !.hist.clean = FALSE] IN
  IF H.socket # 0 /\ H.connected
  THEN [H EXCEPT !.calls = Append(H.calls,
                    NewCall("disconnect", "reply", H.socket, 0, "", FALSE)),
                 !.lastCall = LC(S, "disconnectFromRemote", "remote", "pending")]
  ELSE disconnectDone(H)

\* RemoteFileSystem's catch blocks: listDirectory, readFile and writeFile
\* throw a new Error built from the path alone; changeDirectory rethrows and
\* executeCommand has no catch.
RemoteOutcome(k) ==
  IF k.status = "resolved" THEN "ok"
  ELSE IF k.kind \in {"list", "read", "write"} /\ ~k.cd THEN "Failed"
  ELSE k.err

\* Whether the error RemoteFileSystem throws for a failed op names the
\* operation and its path: the catch blocks of listDirectory, readFile and
\* writeFile build such a message, changeDirectory and executeCommand let
\* the Transport's error through as it is.
ErrorHasContext(op) == op \in {"listDirectory", "readFile", "writeFile"}

\* The API operation that issued call k.
OpOf(k) ==
  CASE k.kind = "list" -> IF k.cd THEN "changeDirectory" ELSE "listDirectory"
    [] k.kind = "read" -> "readFile"
    [] k.kind = "write" -> "writeFile"
    [] k.kind = "exec" -> "executeCommand"
    [] k.kind = "connect" -> "connectToRemote"
    [] OTHER -> "disconnectFromRemote"

Continue_DisconnectsOnFailure(S, c) ==
  LET k == S.calls[c] IN
  CASE k.kind = "connect" /\ k.phase = "handshake" /\ k.status = "resolved" ->
         connectSSH([S EXCEPT !.calls[c].status = "pending"], c)
    [] k.kind = "connect" /\ k.status = "resolved" -> connectSucceeded(S, c)
    [] k.kind = "connect" /\ k.status = "rejected" -> connectFailed(S, c)
    [] k.kind = "disconnect" -> disconnectDone(S)
    [] k.kind = "list" /\ k.cd /\ k.status = "resolved" -> changeDirectoryDone(S, c)
    [] k.status = "rejected" ->
         [cleanup(S) EXCEPT !.lastCall = Done(S, OpOf(k), RemoteOutcome(k))]
    [] OTHER ->
         [S EXCEPT !.lastCall =
            Done(S, OpOf(k), RemoteOutcome(k))]

Continue_MovesOnFailure(S, c) ==
  LET k == S.calls[c] IN
  CASE k.kind = "connect" /\ k.phase = "handshake" /\ k.status = "resolved" ->
         connectSSH([S EXCEPT !.calls[c].status = "pending"], c)
    [] k.kind = "connect" /\ k.status = "resolved" -> connectSucceeded(S, c)
    [] k.kind = "connect" /\ k.status = "rejected" -> connectFailed(S, c)
    [] k.kind = "disconnect" -> disconnectDone(S)
    [] k.kind = "list" /\ k.cd ->
         [changeDirectoryDone(S, c) EXCEPT
            !.lastCall = Done(S, OpOf(k), RemoteOutcome(k))]
    [] OTHER ->
         [S EXCEPT !.lastCall =
            Done(S, OpOf(k), RemoteOutcome(k))]

\* The continuation released when the promise of call c settles.
Continue(S, c) ==
  LET k == S.calls[c] IN
  CASE k.kind = "connect" /\ k.phase = "handshake" /\ k.status = "resolved" ->
         connectSSH([S EXCEPT !.calls[c].status = "pending"], c)
    [] k.kind = "connect" /\ k.status = "resolved" -> connectSucceeded(S, c)
    [] k.kind = "connect" /\ k.status = "rejected" -> connectFailed(S, c)
    [] k.kind = "disconnect" -> disconnectDone(S)
    [] k.kind = "list" /\ k.cd /\ k.status = "resolved" -> changeDirectoryDone(S, c)
    [] OTHER ->
         [S EXCEPT !.lastCall =
            Done(S, OpOf(k), RemoteOutcome(k))]

\* path and cd are arguments captured by the call's continuation; nothing
\* reads them once the continuation has run.
Forget(S, c) ==
  IF S.calls[c].status = "pending" THEN S
  ELSE [S EXCEPT !.calls[c].path = "", !.calls[c].cd = FALSE]

Settle_LastWins(S, c, status, err, from) ==
  Forget(Continue([S EXCEPT !.calls[c].status = status,
                            !.calls[c].err = err,
                            !.calls[c].from = from], c), c)

\* resolve()/reject() of call c's promise: the first settlement wins.
Settle(S, c, status, err, from) ==
  IF S.calls[c].status # "pending" THEN S
  ELSE Forget(Continue([S EXCEPT !.calls[c].status = status,
                                 !.calls[c].err = err,
                                 !.calls[c].from = from], c), c)

ClearTimer(k) == IF k.timer = "armed" THEN [k EXCEPT !.timer = "cleared"] ELSE k

TimerFired_NoReject(S, c) ==
  LET T == [S EXCEPT !.calls[c].timer = "fired"] IN
  IF S.calls[c].kind = "disconnect"
  THEN Settle(T, c, "resolved", "none", 0)
  ELSE T

\* The setTimeout callback of call c.
TimerFired(S, c) ==
  LET T == [S EXCEPT !.calls[c].timer = "fired"] IN
  IF S.calls[c].kind = "disconnect"
  THEN Settle(T, c, "resolved", "none", 0)
  ELSE Settle(T, c, "rejected", "Timeout", 0)

\* ---- WebSocketSSHService: requests ----------------------------------------
\* listDirectory / readFile / writeFile / executeCommand of the Transport:
\* the guard, then timer, the two once-listeners and the emit.
request(S, kind, op, path, cd) ==
  IF ~S.connected \/ S.socket = 0
  THEN [S EXCEPT !.lastCall = LC(S, op, "remote", "NotConnected")]
  ELSE [S EXCEPT !.calls = Append(S.calls,
                    NewCall(kind, "reply", S.socket, 0, path, cd)),
                 !.lastCall = LC(S, op, "remote", "pending")]

\* ---- channel events --------------------------------------------------------
\* A broker message m = [ev, kind, for] on channel s reaches the once-listener
\* a call registered on s under that event name.
Matches(k, s, m) ==
  /\ k.sock = s
  /\ k.kind = m.kind
  /\ \/ m.ev = "success" /\ k.succL
     \/ m.ev = "error" /\ k.errL

\* The once-listener of call c runs: it is removed, clears the call's timer
\* and settles the call's promise.
FireReply(S, c, m) ==
  LET k == ClearTimer([S.calls[c] EXCEPT
                         !.succL = IF m.ev = "success" THEN FALSE ELSE @,
                         !.errL = IF m.ev = "error" THEN FALSE ELSE @])
      T == [S EXCEPT !.calls[c] = k]
  IN IF m.ev = "success" THEN Settle(T, c, "resolved", "none", m.for)
     ELSE Settle(T, c, "rejected", "Remote", m.for)

\* emit of one event: every listener registered under its name when the
\* event is emitted (the calls in L) runs, in registration order; the
\* continuations they release run afterwards in the same order.
RECURSIVE FireFrom(_, _, _, _)
FireFrom(S, i, L, m) ==
  IF i > Len(S.calls) THEN S
  ELSE FireFrom(IF i \in L THEN FireReply(S, i, m) ELSE S, i + 1, L, m)

onDisconnected_FlagKept(S) == [S EXCEPT !.hist.clean = FALSE]

\* setupSocketHandlers: 'disconnect' and 'ssh:disconnected' handlers.
onDisconnected(S) == [S EXCEPT !.connected = FALSE, !.hist.clean = FALSE]

\* setStreamingCallback of the Transport (RemoteFileSystem forwards to it).
setStreamingCallback(S, cb) == [S EXCEPT !.streamingCallback = cb]

onCommandOutput_Dropped(S) == [S EXCEPT !.chunks = S.chunks + 1]

\* setupSocketHandlers: the 'ssh:command:output' handler, one per channel.
\* The chunk is numbered in the order of arrival.
onCommandOutput(S) ==
  LET n == S.chunks + 1 IN
  IF S.streamingCallback # 0
  THEN [S EXCEPT !.chunks = n,
                 !.received[S.streamingCallback] = Append(@, n)]
  ELSE [S EXCEPT !.chunks = n]

\* The broker's reply to the request of call c arrives on c's channel.
Receive(S, c, ev) ==
  LET m == [ev |-> ev, kind |-> S.calls[c].kind, for |-> c]
      L == {d \in 1..Len(S.calls) : Matches(S.calls[d], S.calls[c].sock, m)}
  IN FireFrom([S EXCEPT !.calls[c].answered = TRUE], 1, L, m)

\* once('connect') / once('connect_error') of waitForSocketConnection.
FireHandshake(S, c, ok) ==
  LET k0 == [S.calls[c] EXCEPT !.hsL = IF ok THEN FALSE ELSE @,
                               !.hsErrL = IF ok THEN @ ELSE FALSE]
      live == k0.phase = "handshake"
      T == [S EXCEPT !.calls[c] = IF live THEN ClearTimer(k0) ELSE k0]
  IN IF ~live THEN T
     ELSE IF ok THEN Settle(T, c, "resolved", "none", 0)
     ELSE Settle(T, c, "rejected", "Handshake", 0)

HandshakeListeners(S, s, ok) ==
  {c \in 1..Len(S.calls) :
     S.calls[c].hsSock = s /\ (IF ok THEN S.calls[c].hsL ELSE S.calls[c].hsErrL)}

RECURSIVE FireHandshakes(_, _, _, _)
FireHandshakes(S, i, L, ok) ==
  IF i > Len(S.calls) THEN S
  ELSE FireHandshakes(IF i \in L THEN FireHandshake(S, i, ok) ELSE S,
                      i + 1, L, ok)

\* ---- RemoteFileSystem ------------------------------------------------------
RemoteOp_NoGuard(S, kind, op, path, cd) == request(S, kind, op, path, cd)

RemoteOp(S, kind, op, path, cd) ==
  IF ~isConnected(S)
  THEN [S EXCEPT !.lastCall = LC(S, op, "remote", "NotConnected")]
  ELSE request(S, kind, op, path, cd)

\* ---- LocalFileSystem: status queries --------------------------------------
LocalIsConnected == TRUE

LocalGetCurrentPath(S) == S.localPath

\* LocalFileSystem operations; res is what the device storage answers.
LocalOp(S, op, path, res) ==
  [S EXCEPT !.localPath = IF op = "changeDirectory" /\ res = "ok" THEN path ELSE @,
            !.lastCall = LC(S, op, "local",
                            IF res = "ok" THEN "ok"
                            ELSE IF op = "changeDirectory" THEN "NotFound"
                            ELSE "Failed")]

\* ---- FileSystemManager ----------------------------------------------------
getCurrentFS_AlwaysLocal(S) == "local"

getCurrentFS(S) == IF S.selector = "local" THEN "local" ELSE "remote"

switchToLocal(S) ==
  [S EXCEPT !.selector = "local",
            !.lastCall = LC(S, "switchToLocal", "none", "ok")]

switchToRemote_NoGuard(S) ==
  [S EXCEPT !.selector = "remote",
            !.lastCall = LC(S, "switchToRemote", "none", "ok")]

switchToRemote(S) ==
  IF ~isConnected(S)
  THEN [S EXCEPT !.lastCall =
          LC(S, "switchToRemote", "none", "PreconditionFailed")]
  ELSE [S EXCEPT !.selector = "remote",
                 !.lastCall = LC(S, "switchToRemote", "none", "ok")]

BackendIsConnected(S, fs) ==
  IF fs = "local" THEN LocalIsConnected ELSE isConnected(S)

MgrIsConnected_AsksRemote(S) == isConnected(S)

MgrIsConnected(S) == BackendIsConnected(S, getCurrentFS(S))

isRemoteConnected(S) == isConnected(S)

MgrGetCurrentPath(S) ==
  IF getCurrentFS(S) = "local" THEN LocalGetCurrentPath(S) ELSE getCurrentPath(S)

KindOf(op) ==
  CASE op = "listDirectory" -> "list"
    [] op = "changeDirectory" -> "list"
    [] op = "readFile" -> "read"
    [] op = "writeFile" -> "write"
    [] OTHER -> "exec"

\* listDirectory / changeDirectory / readFile / writeFile of the Manager.
ContractOp(S, op, path, res) ==
  IF getCurrentFS(S) = "local" THEN LocalOp(S, op, path, res)
  ELSE RemoteOp(S, KindOf(op), op, path, op = "changeDirectory")

executeCommand(S) ==
  IF S.selector # "remote"
  THEN [S EXCEPT !.lastCall =
          LC(S, "executeCommand", "none", "UnsupportedOperation")]
  ELSE RemoteOp(S, "exec", "executeCommand", "", FALSE)

\* setStreamingCallback of the Manager: forwarded in remote mode, otherwise
\* it returns without doing anything.
MgrSetStreamingCallback(S, cb) ==
  IF S.selector = "remote"
  THEN [setStreamingCallback(S, cb) EXCEPT
          !.lastCall = LC(S, "setStreamingCallback", "remote", "ok")]
  ELSE [S EXCEPT !.lastCall = LC(S, "setStreamingCallback", "none", "ok")]

connectToRemote(S, initialPath) == connect(S, initialPath)

disconnectFromRemote(S) == disconnect(S)

\* getConnectionInfo of LocalFileSystem.
LocalGetConnectionInfo(S) ==
  [connected |-> TRUE, source |-> "local",
   details |-> [documentDirectory |-> DocumentDirectory,
                currentPath |-> S.localPath]]

\* getConnectionInfo of the Manager: the backend's answer with the source
\* replaced by the selector.
MgrGetConnectionInfo(S) ==
  LET info == IF getCurrentFS(S) = "local" THEN LocalGetConnectionInfo(S)
              ELSE getConnectionInfo(S)
  IN [connected |-> info.connected, source |-> S.selector,
      details |-> info.details]

StatusQuery_ChecksChannel(S, op) ==
  IF op = "isConnected" /\ getCurrentFS(S) = "remote" /\ ~isConnected(S)
  THEN [cleanup(S) EXCEPT !.lastCall = LC(S, op, "remote", "ok")]
  ELSE [S EXCEPT !.lastCall = LC(S, op, getCurrentFS(S), "ok")]

\* getCurrentPath / isConnected / getConnectionInfo of the Manager: each
\* returns a value computed from the fields and assigns nothing.
StatusQuery(S, op) ==
  [S EXCEPT !.lastCall = LC(S, op, getCurrentFS(S), "ok")]

\* ---- file contents ---------------------------------------------------------
NoPair ==
  [stage |-> "none", backend |-> "none", path |-> "", content |-> "",
   call |-> 0, result |-> ""]

\* A writeFile(path, content) on a backend has just succeeded.
Written(backend, path, content) ==
  [stage |-> "written", backend |-> backend, path |-> path,
   content |-> content, call |-> 0, result |-> ""]

\* The next API call after the write: a readFile of the same path on the same
\* backend continues the pair (call 0: it returned at once), any other call
\* ends it.
ThenCall(rt, op, backend, path, call) ==
  IF rt.stage = "written" /\ op = "readFile" /\ rt.backend = backend
     /\ rt.path = path
  THEN [rt EXCEPT !.stage = "reading", !.call = call]
  ELSE IF rt.stage \in {"written", "reading"} THEN NoPair
  ELSE rt

\* The payload of the request the call made from S to T emitted, if it did.
Track(S, T, path, content) ==
  IF Len(T.calls) > Len(S.calls)
  THEN [T EXCEPT !.store.req = Append(@, [path |-> path, content |-> content])]
  ELSE T

\* LocalFileSystem.writeFile: writeAsStringAsync stores the content or throws.
LocalWriteFile(S, path, content, res) ==
  LET T == LocalOp(S, "writeFile", path, res) IN
  IF res = "ok"
  THEN [T EXCEPT !.store.local[path] = content,
                 !.store.rt = Written("local", path, content)]
  ELSE [T EXCEPT !.store.rt = NoPair]

LocalReadFile_Trimmed(S, path, res) ==
  LET T == LocalOp(S, "readFile", path, res)
      rt == ThenCall(S.store.rt, "readFile", "local", path, 0) IN
  IF res = "ok" /\ rt.stage = "reading"
  THEN [T EXCEPT !.store.rt = [rt EXCEPT !.stage = "read", !.result = ""]]
  ELSE [T EXCEPT !.store.rt = NoPair]

\* LocalFileSystem.readFile: returns what readAsStringAsync returns, or throws.
LocalReadFile(S, path, res) ==
  LET T == LocalOp(S, "readFile", path, res)
      rt == ThenCall(S.store.rt, "readFile", "local", path, 0) IN
  IF res = "ok" /\ rt.stage = "reading"
  THEN [T EXCEPT !.store.rt = [rt EXCEPT !.stage = "read",
                                         !.result = S.store.local[path]]]
  ELSE [T EXCEPT !.store.rt = NoPair]

\* writeFile of the Manager.
writeFile(S, path, content) ==
  IF getCurrentFS(S) = "local" THEN S
  ELSE LET T == Track(S, RemoteOp(S, "write", "writeFile", "", FALSE), path, content)
       IN [T EXCEPT !.store.rt = ThenCall(@, "writeFile", "remote", path, 0)]

\* readFile of the Manager.
readFile(S, path) ==
  IF getCurrentFS(S) = "local" THEN S
  ELSE LET T == Track(S, RemoteOp(S, "read", "readFile", "", FALSE), path, "")
       IN [T EXCEPT !.store.rt =
             ThenCall(@, IF Len(T.calls) > Len(S.calls) THEN "readFile" ELSE "failed",
                      "remote", path, Len(T.calls))]

\* The broker performs the request of call c and answers; the reply's
\* listeners run.  A write succeeded for the caller of every writeFile the
\* reply resolved; the content of a 'ssh:readFile:success' is returned by
\* every readFile it resolved.
BrokerReply(S, c, ev) ==
  LET k == S.calls[c]
      q == S.store.req[c]
      T == Receive(S, c, ev)
      done == {d \in 1..Len(S.calls) :
                 S.calls[d].status = "pending" /\ T.calls[d].status = "resolved"
                 /\ S.calls[d].kind = k.kind}
      w == IF done = {} THEN 0 ELSE CHOOSE d \in done : \A e \in done : e <= d
      rt == S.store.rt
  IN [T EXCEPT
        !.store.broker = IF k.kind = "write" /\ ev = "success"
                         THEN [@ EXCEPT ![q.path] = q.content] ELSE @,
        !.store.rt =
          IF k.kind = "write" /\ w # 0
          THEN Written("remote", S.store.req[w].path, S.store.req[w].content)
          ELSE IF k.kind = "read" /\ rt.stage = "reading" /\ rt.call \in done
          THEN [rt EXCEPT !.stage = "read", !.result = S.store.broker[q.path]]
          ELSE rt]

\* ---- initial state ---------------------------------------------------------
Init ==
  /\ selector = "local"
  /\ socket = 0
  /\ connected = FALSE
  /\ currentPath = RootPath
  /\ connectionInfo = NoInfo
  /\ localPath = DocumentDirectory
  /\ sockets = << >>
  /\ calls = << >>
  /\ lastCall = [at |-> "call", op |-> "none", sel |-> "local", backend |-> "none",
                 outcome |-> "ok", conn |-> FALSE, emitted |-> FALSE]
  /\ hist = [everConnected |-> FALSE, noDisc |-> FALSE, clean |-> FALSE]
  /\ streamingCallback = 0
  /\ received = [cb \in Callbacks |-> << >>]
  /\ chunks = 0
  /\ listed = [by |-> "none", read |-> TRUE, outcome |-> "ok", names |-> << >>,
               stats |-> << >>, result |-> << >>]
  /\ cred = [given |-> [password |-> FALSE, privateKey |-> FALSE], kept |-> {}]
  /\ store = [local |-> [p \in FilePaths |-> ""],
              broker |-> [p \in FilePaths |-> ""],
              req |-> << >>, rt |-> NoPair]
  /\ probed = NoProbe
  /\ term = NoTerminal
  /\ vault = EmptyVault

SwitchToLocal == Assign(switchToLocal(Cur))

SwitchToRemote == Assign(switchToRemote(Cur))

QueryStatus ==
  \E op \in {"getCurrentPath", "isConnected", "getConnectionInfo"} :
    Assign(StatusQuery(Cur, op))

\* The calls of state T stay within the bounds.
Fits(T, max, maxConnects, maxOps) ==
  LET n(kinds) == Cardinality({c \in 1..Len(T.calls) : T.calls[c].kind \in kinds})
  IN /\ Len(T.calls) <= max
     /\ n({"connect"}) <= maxConnects
     /\ n(OpKinds) <= maxOps

FitsSpec(T) == Fits(T, MaxCalls, MaxConnects, MaxCalls)

FitsRequests(T) == Fits(T, MaxRequests, ReqConnects, MaxRequests)

FitsLifecycle(T) == Fits(T, LifeCalls, LifeConnects, LifeOps)

ContractCall ==
  \E op \in {"listDirectory", "changeDirectory", "readFile", "writeFile"} :
    \E path \in (IF op = "changeDirectory" THEN Paths ELSE {""}) :
      \E res \in {"ok", "fail"} :
        LET T == ContractOp(Cur, op, path, res) IN
        /\ getCurrentFS(Cur) = "remote" => res = "ok"
        /\ FitsSpec(T)
        /\ Assign(Observe(Cur, T))

ExecuteCommand ==
  LET T == executeCommand(Cur) IN FitsSpec(T) /\ Assign(Observe(Cur, T))

ConnectToRemote ==
  \E ip \in InitialPaths :
    LET T == connectToRemote(Cur, ip) IN FitsSpec(T) /\ Assign(Observe(Cur, T))

DisconnectFromRemote ==
  LET T == disconnectFromRemote(Cur) IN FitsSpec(T) /\ Assign(Observe(Cur, T))

\* The setTimeout callback of a call runs.
Timeout ==
  \E c \in 1..Len(calls) :
    /\ calls[c].timer = "armed"
    /\ Assign(TimerFired(Cur, c))

\* The broker answers a request it received (at most once, after any delay)
\* and the channel delivers the reply.
Reply ==
  \E c \in 1..Len(calls) : \E ev \in {"success", "error"} :
    /\ calls[c].emitted /\ ~calls[c].answered
    /\ sockets[calls[c].sock].state = "open"
    /\ calls[c].kind = "disconnect" => ev = "success"
    /\ Assign(Receive(Cur, c, ev))

\* The channel's own 'connect' event (first connection or reconnection).
SocketConnect ==
  \E s \in 1..Len(sockets) :
    /\ sockets[s].state \in {"opening", "lost"}
    /\ Assign(FireHandshakes([Cur EXCEPT !.sockets[s].state = "open"], 1,
                             HandshakeListeners(Cur, s, TRUE), TRUE))

\* The channel's 'connect_error' event.
SocketConnectError ==
  \E s \in 1..Len(sockets) :
    /\ sockets[s].state = "opening"
    /\ Assign(FireHandshakes(Cur, 1, HandshakeListeners(Cur, s, FALSE), FALSE))

\* The channel's 'disconnect' event: the connection to the broker dropped.
SocketDisconnect ==
  \E s \in 1..Len(sockets) :
    /\ sockets[s].state = "open"
    /\ Assign(onDisconnected([Cur EXCEPT !.sockets[s].state = "lost"]))

\* The broker's 'ssh:disconnected' event: the SSH session ended.
BrokerDisconnected ==
  \E s \in 1..Len(sockets) :
    /\ sockets[s].state = "open"
    /\ Assign(onDisconnected(Cur))

Next ==
  \/ SwitchToLocal
  \/ SwitchToRemote
  \/ QueryStatus
  \/ ContractCall
  \/ ExecuteCommand
  \/ ConnectToRemote
  \/ DisconnectFromRemote
  \/ Timeout
  \/ Reply
  \/ SocketConnect
  \/ SocketConnectError
  \/ SocketDisconnect
  \/ BrokerDisconnected

Spec == Init /\ [][Next]_vars

\* ---- the request protocol on its own ---------------------------------------
\* The same program driven only through calls the Remote Backend accepts:
\* connect, disconnect, and requests issued while the selector is 'remote' and
\* the backend reports connected.  The channel, the broker and the timers
\* behave as above.
Connect ==
  \E ip \in InitialPaths :
    LET T == connectToRemote(Cur, ip) IN FitsRequests(T) /\ Assign(Observe(Cur, T))

Disconnect ==
  LET T == disconnectFromRemote(Cur) IN FitsRequests(T) /\ Assign(Observe(Cur, T))

Request ==
  /\ selector = "remote"
  /\ isConnected(Cur)
  /\ \E op \in {"listDirectory", "changeDirectory", "readFile", "writeFile",
                 "executeCommand"} :
       \E path \in (IF op = "changeDirectory" THEN Paths ELSE {""}) :
         LET T == IF op = "executeCommand" THEN executeCommand(Cur)
                  ELSE ContractOp(Cur, op, path, "ok")
         IN FitsRequests(T) /\ Assign(Observe(Cur, T))

NextRequests ==
  \/ Connect
  \/ Disconnect
  \/ Request
  \/ Timeout
  \/ Reply
  \/ SocketConnect
  \/ SocketConnectError
  \/ SocketDisconnect
  \/ BrokerDisconnected

SpecRequests == Init /\ [][NextRequests]_vars

\* ---- the connection lifecycle on its own -----------------------------------
\* Overlapping connect and disconnect calls, and operations attempted through
\* the Manager in any connection state while the selector is 'remote'.
Reconnect ==
  \E ip \in InitialPaths :
    LET T == connectToRemote(Cur, ip) IN FitsLifecycle(T) /\ Assign(Observe(Cur, T))

Teardown ==
  LET T == disconnectFromRemote(Cur) IN FitsLifecycle(T) /\ Assign(Observe(Cur, T))

Attempt ==
  /\ selector = "remote"
  /\ \E op \in {"listDirectory", "changeDirectory", "readFile", "writeFile",
                 "executeCommand"} :
       \E path \in (IF op = "changeDirectory" THEN Paths ELSE {""}) :
         LET T == IF op = "executeCommand" THEN executeCommand(Cur)
                  ELSE ContractOp(Cur, op, path, "ok")
         IN FitsLifecycle(T) /\ Assign(Observe(Cur, T))

NextLifecycle ==
  \/ Reconnect
  \/ Teardown
  \/ Attempt
  \/ Timeout
  \/ Reply
  \/ SocketConnect
  \/ SocketConnectError
  \/ SocketDisconnect
  \/ BrokerDisconnected

SpecLifecycle == Init /\ [][NextLifecycle]_vars

\* ---- command execution and streamed output --------------------------------
\* The Manager's remote-only operations in either mode, with the broker
\* streaming output chunks while a command it received is unanswered.
FitsStreaming(T) == Fits(T, StreamCalls, 1, StreamCalls)

StreamConnect ==
  \E ip \in InitialPaths :
    LET T == connectToRemote(Cur, ip) IN FitsStreaming(T) /\ Assign(Observe(Cur, T))

StreamDisconnect ==
  LET T == disconnectFromRemote(Cur) IN FitsStreaming(T) /\ Assign(Observe(Cur, T))

StreamExecute ==
  LET T == executeCommand(Cur) IN FitsStreaming(T) /\ Assign(Observe(Cur, T))

SetStreamingCallback ==
  \E cb \in Callbacks : Assign(MgrSetStreamingCallback(Cur, cb))

\* A 'ssh:command:output' event arrives on a channel.
CommandOutput ==
  \E c \in 1..Len(calls) :
    /\ calls[c].kind = "exec" /\ calls[c].emitted /\ ~calls[c].answered
    /\ sockets[calls[c].sock].state = "open"
    /\ chunks < MaxChunks
    /\ Assign(onCommandOutput(Cur))

NextStreaming ==
  \/ SwitchToLocal
  \/ SwitchToRemote
  \/ StreamConnect
  \/ StreamDisconnect
  \/ StreamExecute
  \/ SetStreamingCallback
  \/ CommandOutput
  \/ Timeout
  \/ Reply
  \/ SocketConnect
  \/ SocketConnectError
  \/ SocketDisconnect
  \/ BrokerDisconnected

SpecStreaming == Init /\ [][NextStreaming]_vars

\* ---- directory listings ---------------------------------------------------
\* File names are sequences of UTF-16 code units: "B", "a", "b".
Names == {<< 66 >>, << 97 >>, << 98 >>}

\* What FileSystem.getInfoAsync can do for one entry: throw, or return an
\* info object whose isDirectory is true, false or absent and whose size is
\* a number ({n}) or absent ({}).
Stats ==
  {[ok |-> FALSE, isDirectory |-> "undefined", size |-> {}]}
    \cup [ok : {TRUE}, isDirectory : {"true", "false", "undefined"},
          size : {{}, {7}}]

RECURSIVE SeqsUpTo(_, _)
SeqsUpTo(S, n) ==
  IF n = 0 THEN {<< >>}
  ELSE LET R == SeqsUpTo(S, n - 1) IN
       R \cup {Append(q, x) : q \in {r \in R : Len(r) = n - 1}, x \in S}

Distinct(q) == \A i \in 1..Len(q) : \A j \in 1..Len(q) : i # j => q[i] # q[j]

\* The names a directory can hold: no name twice.
NameLists == {q \in SeqsUpTo(Names, MaxEntries) : Distinct(q)}

\* s < t by code units (the order of the < operator on strings).
RECURSIVE CodeUnitLess(_, _)
CodeUnitLess(s, t) ==
  IF t = << >> THEN FALSE
  ELSE IF s = << >> THEN TRUE
  ELSE IF Head(s) # Head(t) THEN Head(s) < Head(t)
  ELSE CodeUnitLess(Tail(s), Tail(t))

Fold(ch) == IF ch \in 65..90 THEN ch + 32 ELSE ch

FoldAll(s) == [i \in 1..Len(s) |-> Fold(s[i])]

\* The first position at which two strings of equal letters differ in case
\* decides: the lower-case letter comes first.
RECURSIVE CaseOrder(_, _)
CaseOrder(s, t) ==
  IF s = << >> \/ t = << >> THEN 0
  ELSE IF Head(s) = Head(t) THEN CaseOrder(Tail(s), Tail(t))
  ELSE IF Head(s) > Head(t) THEN -1 ELSE 1

\* String.prototype.localeCompare on names made of ASCII letters: letters
\* are compared without regard to case first, case breaks ties.
localeCompare(s, t) ==
  IF FoldAll(s) # FoldAll(t)
  THEN IF CodeUnitLess(FoldAll(s), FoldAll(t)) THEN -1 ELSE 1
  ELSE CaseOrder(s, t)

\* The comparator passed to fileItems.sort.
compareItems(a, b) ==
  IF a.isDirectory # b.isDirectory
  THEN IF a.isDirectory THEN -1 ELSE 1
  ELSE localeCompare(a.name, b.name)

\* Array.prototype.sort is stable: e goes behind every item not after it.
RECURSIVE InsertItem(_, _)
InsertItem(e, q) ==
  IF q = << >> THEN << e >>
  ELSE IF compareItems(Head(q), e) <= 0 THEN << Head(q) >> \o InsertItem(e, Tail(q))
  ELSE << e >> \o q

RECURSIVE sort(_)
sort(q) == IF q = << >> THEN << >> ELSE InsertItem(q[Len(q)], sort(SubSeq(q, 1, Len(q) - 1)))

LocalItem_DropsFailed(targetPath, fileName, st) ==
  IF st.ok
  THEN << [name |-> fileName, path |-> << targetPath, fileName >>,
           isFile |-> st.isDirectory # "true",
           isDirectory |-> st.isDirectory = "true", size |-> st.size] >>
  ELSE << >>

\* The body of the loop of LocalFileSystem.listDirectory: what is pushed for
\* one name. !undefined is true and (undefined || false) is false.
LocalItem(targetPath, fileName, st) ==
  IF st.ok
  THEN << [name |-> fileName, path |-> << targetPath, fileName >>,
           isFile |-> st.isDirectory # "true",
           isDirectory |-> st.isDirectory = "true", size |-> st.size] >>
  ELSE << [name |-> fileName, path |-> << targetPath, fileName >>,
           isFile |-> TRUE, isDirectory |-> FALSE, size |-> {}] >>

RECURSIVE LocalItems(_, _, _)
LocalItems(targetPath, files, stats) ==
  IF files = << >> THEN << >>
  ELSE LocalItem(targetPath, Head(files), Head(stats))
         \o LocalItems(targetPath, Tail(files), Tail(stats))

\* LocalFileSystem.listDirectory: readOk is whether readDirectoryAsync
\* returned files; stats is what getInfoAsync does for each of them.
\* listed.read records readOk.
LocalListDirectory(S, readOk, files, stats) ==
  IF readOk
  THEN [S EXCEPT !.listed = [by |-> "local", read |-> TRUE, outcome |-> "ok",
                             names |-> files,
                             stats |-> stats,
                             result |-> sort(LocalItems(S.localPath, files, stats))]]
  ELSE [S EXCEPT !.listed = [by |-> "local", read |-> FALSE, outcome |-> "IOError",
                             names |-> << >>, stats |-> << >>, result |-> << >>]]

\* A FileItem as the broker sends it.
BrokerItem(fileName, isDir) ==
  [name |-> fileName, path |-> << RootPath, fileName >>, isFile |-> ~isDir,
   isDirectory |-> isDir, size |-> {}]

\* The 'ssh:listDir:success' callback resolves the call with the files of
\* the event, and RemoteFileSystem.listDirectory returns them.
RemoteListResolved(S, files) ==
  [S EXCEPT !.listed = [by |-> "remote", read |-> TRUE, outcome |-> "ok",
                        names |-> [i \in 1..Len(files) |-> files[i].name],
                        stats |-> << >>, result |-> files]]

\* The first character of an sftp longname: file, directory, symbolic link.
LongnameTypes == {"-", "d", "l"}

\* RealSSHService.listDir: the mapping of one sftpLs entry.
SftpItem(targetPath, file) ==
  [name |-> file.filename, path |-> << targetPath, file.filename >>,
   isFile |-> file.longname = "-", isDirectory |-> file.longname = "d",
   size |-> {}]

listDir(S, files) ==
  [S EXCEPT !.listed = [by |-> "sftp", read |-> TRUE, outcome |-> "ok",
                        names |-> [i \in 1..Len(files) |-> files[i].filename],
                        stats |-> << >>,
                        result |-> [i \in 1..Len(files) |-> SftpItem(RootPath, files[i])]]]

LocalListed ==
  \E readOk \in BOOLEAN : \E files \in NameLists :
    \E stats \in SeqsUpTo(Stats, MaxEntries) :
      /\ Len(stats) = Len(files)
      /\ readOk \/ files = << >>
      /\ Assign(LocalListDirectory(Cur, readOk, files, stats))

RemoteListed ==
  \E files \in NameLists : \E dirs \in SeqsUpTo(BOOLEAN, MaxEntries) :
    /\ Len(dirs) = Len(files)
    /\ Assign(RemoteListResolved(Cur,
                [i \in 1..Len(files) |-> BrokerItem(files[i], dirs[i])]))

SftpListed ==
  \E files \in NameLists : \E types \in SeqsUpTo(LongnameTypes, MaxEntries) :
    /\ Len(types) = Len(files)
    /\ Assign(listDir(Cur,
                [i \in 1..Len(files) |-> [filename |-> files[i], longname |-> types[i]]]))

NextListing ==
  \/ LocalListed
  \/ RemoteListed
  \/ SftpListed

SpecListing == Init /\ [][NextListing]_vars

\* ---- writing and reading files ---------------------------------------------
\* Files written and read through the Manager: on the Remote backend the
\* broker answers after any delay and in any order (SpecFiles), on the Local
\* backend the device storage answers each call (SpecLocalFiles).
FitsFiles(T) == Fits(T, FileCalls, 1, FileCalls)

FileConnect ==
  LET T == Track(Cur, connectToRemote(Cur, ""), "", "") IN
  FitsFiles(T) /\ Assign(Observe(Cur, T))

LocalWrite ==
  /\ getCurrentFS(Cur) = "local"
  /\ \E path \in FilePaths : \E content \in Contents \cup {""} :
       \E res \in {"ok", "fail"} :
         Assign(LocalWriteFile(Cur, path, content, res))

LocalRead ==
  /\ getCurrentFS(Cur) = "local"
  /\ \E path \in FilePaths : \E res \in {"ok", "fail"} :
       Assign(LocalReadFile(Cur, path, res))

RemoteWrite ==
  /\ getCurrentFS(Cur) = "remote"
  /\ isConnected(Cur)
  /\ \E path \in FilePaths : \E content \in Contents :
       LET T == writeFile(Cur, path, content) IN
       FitsFiles(T) /\ Assign(Observe(Cur, T))

RemoteRead ==
  /\ getCurrentFS(Cur) = "remote"
  /\ isConnected(Cur)
  /\ \E path \in FilePaths :
       LET T == readFile(Cur, path) IN
       FitsFiles(T) /\ Assign(Observe(Cur, T))

FileReply ==
  \E c \in 1..Len(calls) : \E ev \in {"success", "error"} :
    /\ calls[c].emitted /\ ~calls[c].answered
    /\ sockets[calls[c].sock].state = "open"
    /\ Assign(BrokerReply(Cur, c, ev))

NextFiles ==
  \/ FileConnect
  \/ RemoteWrite
  \/ RemoteRead
  \/ FileReply
  \/ Timeout
  \/ SocketConnect

SpecFiles == Init /\ [][NextFiles]_vars

NextLocalFiles ==
  \/ LocalWrite
  \/ LocalRead

SpecLocalFiles == Init /\ [][NextLocalFiles]_vars

\* ---- credentials -----------------------------------------------------------
\* connectToRemote(credentials): the credentials go to connect() unchanged.
connectToRemoteWith(S, cr) ==
  [connectToRemote(S, cr.initialPath) EXCEPT
     !.cred.given = [password |-> cr.password, privateKey |-> cr.privateKey]]

FitsCredentials(T) == Fits(T, CredCalls, CredConnects, 0)

\* connectToRemote with any combination of password and private key.
CredConnect ==
  \E cr \in [password : BOOLEAN, privateKey : BOOLEAN, initialPath : InitialPaths] :
    LET T == connectToRemoteWith(Cur, cr) IN
    FitsCredentials(T) /\ Assign(Observe(Cur, T))

CredDisconnect ==
  LET T == disconnectFromRemote(Cur) IN
  FitsCredentials(T) /\ Assign(Observe(Cur, T))

NextCredentials ==
  \/ CredConnect
  \/ CredDisconnect
  \/ Timeout
  \/ Reply
  \/ SocketConnect
  \/ SocketConnectError
  \/ SocketDisconnect
  \/ BrokerDisconnected

SpecCredentials == Init /\ [][NextCredentials]_vars

\* ---- properties --------------------------------------------------------------
ContractOps ==
  {"getCurrentPath", "listDirectory", "changeDirectory", "readFile",
   "writeFile", "isConnected", "getConnectionInfo"}

RemoteOps ==
  {"listDirectory", "changeDirectory", "readFile", "writeFile", "executeCommand"}

CallIds == 1..Len(calls)

\* C1: every contract call of the Manager is run by the backend that matches
\* the selector's value at the moment of the call, never by the other one.
Inv_C1 ==
  (lastCall.at = "call" /\ lastCall.op \in ContractOps)
    => lastCall.backend = lastCall.sel

Witness_C1 ==
  /\ lastCall.at = "call"
  /\ lastCall.op = "readFile"
  /\ lastCall.sel = "remote"
  /\ lastCall.backend = "remote"
  /\ lastCall.emitted

\* C2: switchToRemote() fails with PreconditionFailed and leaves the selector
\* unchanged whenever the Remote Backend does not report connected, so always
\* before the first successful connectToRemote; switchToLocal() always
\* succeeds and sets the selector to 'local'.
Inv_C2 ==
  /\ (lastCall.op = "switchToRemote" /\ ~lastCall.conn)
       => (lastCall.outcome = "PreconditionFailed" /\ selector = lastCall.sel)
  /\ (lastCall.op = "switchToRemote" /\ ~hist.everConnected)
       => lastCall.outcome = "PreconditionFailed"
  /\ lastCall.op = "switchToLocal"
       => (lastCall.outcome = "ok" /\ selector = "local")

Witness_C2 ==
  /\ lastCall.op = "switchToRemote"
  /\ lastCall.outcome = "PreconditionFailed"
  /\ hist.everConnected
  /\ selector = "local"

\* C3 as claimed: after connectToRemote succeeded and while disconnectFromRemote
\* has not been called since, switchToRemote() succeeds.
Orig_C3 ==
  (lastCall.op = "switchToRemote" /\ hist.noDisc) => lastCall.outcome = "ok"

\* C3 as amended: after connectToRemote succeeded on the channel the Transport
\* holds, and while since then no disconnectFromRemote or connectToRemote was
\* called or still in progress, no teardown ran and no channel loss was
\* reported, the Remote Backend reports connected and switchToRemote()
\* succeeds; every contract call made while the selector is 'remote' is run
\* by the Remote Backend.
Inv_C3 ==
  /\ hist.clean => isConnected(Cur)
  /\ (lastCall.op = "switchToRemote" /\ hist.clean)
       => (lastCall.outcome = "ok" /\ selector = "remote")
  /\ (lastCall.at = "call" /\ lastCall.op \in ContractOps /\ lastCall.sel = "remote")
       => lastCall.backend = "remote"

Witness_C3 ==
  /\ lastCall.op = "switchToRemote"
  /\ lastCall.outcome = "ok"
  /\ lastCall.sel = "local"
  /\ hist.clean
  /\ selector = "remote"

\* C4: connectToRemote sets the selector to 'remote' only when the Remote
\* Backend's connect succeeded; when connect fails the selector keeps the
\* value it had and the failure reaches the caller.
Inv_C4 ==
  lastCall.op = "connectToRemote" =>
    /\ lastCall.at = "call" => (lastCall.outcome = "pending" /\ selector = lastCall.sel)
    /\ (lastCall.at = "done" /\ lastCall.outcome = "ok") => selector = "remote"
    /\ (lastCall.at = "done" /\ lastCall.outcome # "ok") =>
         /\ selector = lastCall.sel
         /\ lastCall.outcome \in {"Handshake", "Timeout", "Remote", "NoSocket"}

Witness_C4 ==
  /\ lastCall.op = "connectToRemote"
  /\ lastCall.at = "done"
  /\ lastCall.outcome = "Remote"
  /\ lastCall.sel = "local"
  /\ selector = "local"

\* C5: disconnectFromRemote() never fails, and when it completes the selector
\* is 'local' and the Remote Backend reports not connected, whether the broker
\* acknowledged, the fallback timer ran, or the channel was already lost.
Inv_C5 ==
  (lastCall.op = "disconnectFromRemote" /\ lastCall.at = "done") =>
    /\ lastCall.outcome = "ok"
    /\ selector = "local"
    /\ ~isConnected(Cur)
    /\ ~connected

Witness_C5 ==
  /\ lastCall.op = "disconnectFromRemote"
  /\ lastCall.at = "done"
  /\ lastCall.sel = "remote"
  /\ \E c \in CallIds : calls[c].kind = "disconnect" /\ calls[c].timer = "fired"

\* C6 as claimed: immediately after disconnectFromRemote() completes, the
\* Manager's own isConnected() returns false.
Orig_C6 ==
  (lastCall.op = "disconnectFromRemote" /\ lastCall.at = "done")
    => ~MgrIsConnected(Cur)

\* C6 as amended: immediately after disconnectFromRemote() completes, the
\* Manager's isRemoteConnected() returns false, while its own isConnected(),
\* delegated to the Local Backend that is now selected, returns true.
Inv_C6 ==
  (lastCall.op = "disconnectFromRemote" /\ lastCall.at = "done")
    => (MgrIsConnected(Cur) /\ ~isRemoteConnected(Cur))

Witness_C6 ==
  /\ lastCall.op = "disconnectFromRemote"
  /\ lastCall.at = "done"
  /\ lastCall.sel = "remote"
  /\ hist.everConnected
  /\ MgrIsConnected(Cur)

\* C7: listDirectory, changeDirectory, readFile, writeFile and executeCommand
\* called on a Remote Backend that does not report connected fail at once
\* with NotConnected and emit no request; a request is emitted only for a
\* call made while the backend reports connected.
Inv_C7 ==
  (lastCall.at = "call" /\ lastCall.backend = "remote" /\ lastCall.op \in RemoteOps)
    => /\ ~lastCall.conn => (lastCall.outcome = "NotConnected" /\ ~lastCall.emitted)
       /\ lastCall.emitted => lastCall.conn

Witness_C7 ==
  /\ lastCall.at = "call"
  /\ lastCall.backend = "remote"
  /\ lastCall.op = "writeFile"
  /\ lastCall.outcome = "NotConnected"
  /\ ~lastCall.emitted
  /\ connected

\* C8: a list, read, write or execute request whose deadline elapses before
\* any reply reached it is rejected with Timeout, and stays so: it is never
\* resolved and never rejected with another kind, whatever arrives later.
Inv_C8 ==
  \A c \in CallIds :
    (calls[c].kind \in OpKinds /\ calls[c].timer = "fired")
      => (calls[c].status = "rejected" /\ calls[c].err = "Timeout"
          /\ calls[c].from = 0)

Witness_C8 ==
  \E c \in CallIds :
    /\ calls[c].kind = "exec"
    /\ calls[c].timer = "fired"
    /\ calls[c].answered
    /\ calls[c].status = "rejected"
    /\ calls[c].err = "Timeout"

\* C9: a reply that arrives after its request timed out settles no call:
\* neither the timed-out one nor any other, such as a later request of the
\* same kind that is pending when the late reply arrives.
Claim_C9 ==
  \A c \in CallIds :
    calls[c].from # 0 => calls[calls[c].from].timer # "fired"

\* C10: once a reply listener of a request has fired or its deadline has
\* elapsed, neither its success nor its error listener is still registered
\* on the channel.
Claim_C10 ==
  \A c \in CallIds :
    (calls[c].kind \in OpKinds \cup {"connect"} /\ calls[c].status # "pending")
      => (~calls[c].succL /\ ~calls[c].errL)

\* ---- the request protocol with timers that run ------------------------------
\* An armed timer's callback runs unless the timer is cleared first: the event
\* loop never starves a due setTimeout callback.
SpecRequestsFair == SpecRequests /\ WF_vars(Timeout)

\* A request the broker has not answered yet, or whose caller still waits.
Outstanding(d) ==
  calls[d].status = "pending" \/ (calls[d].emitted /\ ~calls[d].answered)

\* Call c exists and waits in phase ph for its promise to settle.
Waiting(c, ph) ==
  IF c \in CallIds
  THEN calls[c].status = "pending" /\ calls[c].phase = ph
  ELSE FALSE

Claim_C12 ==
  [][\A c \in CallIds : \A f \in CallIds :
       (/\ f # c
        /\ calls[c].status = "pending"
        /\ calls[f].status = "pending"
        /\ calls'[c].status # "pending"
        /\ calls'[c].from = f)
         => OpOf(calls[c]) = OpOf(calls[f])]_vars

Loss_C18 ==
  [][/\ (SocketDisconnect \/ BrokerDisconnected)
          => (/\ ~isConnected(Cur)'
              /\ ~getConnectionInfo(Cur)'.connected
              /\ calls' = calls
              /\ lastCall' = lastCall)
     /\ isConnected(Cur)' => connected'
     /\ getConnectionInfo(Cur)'.connected = connected'
     /\ (~connected /\ connected')
          => \E c \in CallIds :
               /\ calls[c].kind = "connect"
               /\ calls[c].status = "pending"
               /\ calls'[c].status = "resolved"]_vars

Witness_C18 ==
  /\ hist.everConnected
  /\ hist.noDisc
  /\ ~connected
  /\ ~isConnected(Cur)
  /\ ~getConnectionInfo(Cur).connected
  /\ socket # 0
  /\ SocketConnected(Cur)
  /\ connectionInfo.set
  /\ selector = "remote"

\* C19: every command-output event received is handed, in the step in which
\* it arrives, once to the callback registered at that moment and to no other
\* (to nobody when none is registered); nothing is delivered without an
\* event; a callback that was replaced receives nothing further; and each
\* callback sees its chunks in the order in which they arrived, whatever
\* replies and other events come in between.
Stream_C19 ==
  [][/\ chunks' = chunks + 1
          => /\ streamingCallback' = streamingCallback
             /\ \A cb \in Callbacks :
                  received'[cb] = IF cb = streamingCallback
                                  THEN Append(received[cb], chunks')
                                  ELSE received[cb]
     /\ chunks' = chunks => received' = received
     /\ chunks' \in {chunks, chunks + 1}
     /\ \A cb \in Callbacks :
          \A i \in 1..Len(received'[cb]) : \A j \in 1..Len(received'[cb]) :
            i < j => received'[cb][i] < received'[cb][j]]_vars

Witness_C19 ==
  /\ streamingCallback = 2
  /\ received[1] = << 1 >>
  /\ received[2] = << 2 >>
  /\ \E c \in CallIds : calls[c].kind = "exec" /\ calls[c].status = "rejected"

\* C20: executeCommand and setStreamingCallback called on the Manager while
\* the selector is 'local' fail with UnsupportedOperation.
Claim_C20 ==
  (/\ lastCall.at = "call"
   /\ lastCall.op \in {"executeCommand", "setStreamingCallback"}
   /\ lastCall.sel = "local")
    => lastCall.outcome = "UnsupportedOperation"

\* Directories before files, and each group in case-sensitive lexicographic
\* (code unit) order of name.
DirsFirstByName(q) ==
  \A i \in 1..Len(q) : \A j \in 1..Len(q) :
    i < j => /\ q[i].isDirectory \/ ~q[j].isDirectory
             /\ q[i].isDirectory = q[j].isDirectory
                  => ~CodeUnitLess(q[j].name, q[i].name)

\* C21: every result of listDirectory, of the Local and of the Remote
\* backend, has all directories before all files and each group in
\* case-sensitive lexicographic order of name.
Claim_C21 ==
  (listed.by \in {"local", "remote"} /\ listed.outcome = "ok")
    => DirsFirstByName(listed.result)

\* C22: a Local listing fails exactly when the storage's directory listing
\* failed; otherwise it has one entry for each name the storage reported and
\* no other: an entry whose metadata lookup failed is a file, not a
\* directory, and has no size, every other entry carries what the lookup
\* returned.
Complete_C22 ==
  listed.by = "local"
    => /\ listed.outcome = "ok" <=> listed.read
       /\ listed.outcome = "ok"
            => /\ Len(listed.result) = Len(listed.names)
               /\ \A i \in 1..Len(listed.names) :
                    \E k \in 1..Len(listed.result) :
                      LET e == listed.result[k]
                          st == listed.stats[i] IN
                      /\ e.name = listed.names[i]
                      /\ \A l \in 1..Len(listed.result) :
                           listed.result[l].name = e.name => l = k
                      /\ IF st.ok
                         THEN /\ e.isDirectory = (st.isDirectory = "true")
                              /\ e.isFile = ~e.isDirectory
                              /\ e.size = st.size
                         ELSE e.isFile /\ ~e.isDirectory /\ e.size = {}

Witness_C22 ==
  /\ listed.by = "local" /\ listed.outcome = "ok"
  /\ Len(listed.names) = 2
  /\ ~listed.stats[1].ok
  /\ listed.stats[2].ok /\ listed.stats[2].isDirectory = "true"
  /\ Len(listed.result) = 2

Claim_C24 ==
  store.rt.stage = "read" => store.rt.result = store.rt.content

\* C24 on the Local backend.
Local_C24 ==
  (store.rt.stage = "read" /\ store.rt.backend = "local")
     => store.rt.result = store.rt.content

\* C25: a connect call whose credentials carry neither or both of password
\* and private key is rejected at once: it opens no channel and is not left
\* pending.
Claim_C25 ==
  (/\ lastCall.op = "connectToRemote" /\ lastCall.at = "call"
   /\ cred.given.password = cred.given.privateKey)
    => lastCall.outcome # "pending" /\ socket = 0

\* C28: the fields of the Transport are never set from the password or the
\* private key, only from host, username and initial path, and only while
\* connection details are stored; the step in which a connect call fails or
\* a disconnect call completes leaves the fields set from no credential, the
\* details cleared and the current path at the root.
Retain_C28 ==
  /\ [][/\ cred.kept' \subseteq {"host", "username", "initialPath"}
        /\ cred.kept' # {} => connectionInfo'.set]_vars
  /\ [][(/\ lastCall' # lastCall
          /\ lastCall'.at = "done"
          /\ \/ lastCall'.op = "disconnectFromRemote"
             \/ lastCall'.op = "connectToRemote" /\ lastCall'.outcome # "ok")
         => /\ cred.kept' = {}
            /\ ~connectionInfo'.set
            /\ currentPath' = RootPath
            /\ socket' = 0]_vars

Witness_C28 ==
  /\ cred.given.password
  /\ cred.kept = {}
  /\ hist.everConnected
  /\ lastCall.op = "disconnectFromRemote" /\ lastCall.at = "done"

\* C26: every failure of a Remote Backend operation that reached the
\* Transport is reported to the caller with an error that names the
\* operation and its path or command and still shows the Transport's error
\* kind (Timeout, or the broker's error).
Claim_C26 ==
  (/\ lastCall.at = "done"
   /\ lastCall.op \in {"listDirectory", "changeDirectory", "readFile",
                        "writeFile", "executeCommand"}
   /\ lastCall.outcome # "ok")
    => /\ ErrorHasContext(lastCall.op)
       /\ lastCall.outcome \in {"Timeout", "Remote"}

\* C26, the part that holds: no failure is swallowed.
Surfaced_C26 ==
  [][\A c \in 1..Len(calls) :
       (/\ calls[c].kind \in OpKinds
        /\ calls[c].status = "pending"
        /\ calls'[c].status = "rejected")
         => lastCall'.at = "done" /\ lastCall'.outcome # "ok"]_vars

\* C27: at most one channel created by the Transport is open at any time.
Claim_C27 ==
  Cardinality({s \in 1..Len(sockets) : sockets[s].state = "open"}) <= 1

\* C29: a status query (getCurrentPath, isConnected, getConnectionInfo)
\* returns normally and changes no field of the Manager or of a backend;
\* the Local backend reports connected in every state, and the source the
\* Manager's getConnectionInfo reports is the selector.
Pure_C29 ==
  /\ [][QueryStatus
         => /\ lastCall'.outcome = "ok"
            /\ UNCHANGED <<selector, socket, connected, currentPath,
                           connectionInfo, localPath, sockets, calls,
                           streamingCallback, cred>>
            /\ MgrIsConnected(Cur)' = MgrIsConnected(Cur)
            /\ MgrGetCurrentPath(Cur)' = MgrGetCurrentPath(Cur)
            /\ MgrGetConnectionInfo(Cur)' = MgrGetConnectionInfo(Cur)]_vars
  /\ [](/\ BackendIsConnected(Cur, "local")
        /\ LocalGetConnectionInfo(Cur).connected
        /\ MgrGetConnectionInfo(Cur).source = selector)

Witness_C29 ==
  /\ lastCall.op = "getConnectionInfo" /\ lastCall.at = "call"
  /\ selector = "remote"
  /\ ~connected
  /\ connectionInfo.set
  /\ MgrGetConnectionInfo(Cur).source = "remote"

\* The teardown has been performed: channel released, flag down, path at the
\* root, details cleared.
TornDown ==
  socket = 0 /\ ~connected /\ currentPath = RootPath /\ ~connectionInfo.set

\* The disconnect calls whose wait ends in this step.
DisconnectsEnding ==
  {c \in 1..Len(calls) : /\ calls[c].kind = "disconnect"
                          /\ calls[c].status = "pending"
                          /\ calls'[c].status = "resolved"}

\* C30: a disconnect call made while the Transport holds a channel and is
\* connected emits one disconnect request and leaves the Transport as it
\* is; its wait ends once, by the acknowledgment or by its timer, and that
\* step performs the teardown; an acknowledgment or timer that comes after
\* the wait has ended changes nothing.  A disconnect call made in any other
\* state emits nothing and performs the teardown in the call itself.
Disc_C30 ==
  /\ [][(/\ lastCall' # lastCall /\ lastCall'.op = "disconnectFromRemote"
          /\ lastCall'.at = "call")
         => /\ socket # 0 /\ connected
            /\ Len(calls') = Len(calls) + 1
            /\ calls'[Len(calls')].kind = "disconnect"
            /\ calls'[Len(calls')].emitted
            /\ calls'[Len(calls')].sock = socket
            /\ \A c \in 1..Len(calls) : calls'[c] = calls[c]
            /\ UNCHANGED <<socket, connected, currentPath, connectionInfo,
                           sockets>>]_vars
  /\ [][DisconnectsEnding # {}
         => /\ TornDown'
            /\ lastCall'.op = "disconnectFromRemote" /\ lastCall'.at = "done"
            /\ \A c \in DisconnectsEnding :
                 \/ calls'[c].timer = "fired" /\ calls[c].timer = "armed"
                 \/ calls'[c].from # 0 /\ calls'[calls'[c].from].kind = "disconnect"
                    /\ ~calls[calls'[c].from].answered
                    /\ calls'[calls'[c].from].answered]_vars
  /\ [][\A c \in 1..Len(calls) :
          (calls[c].kind = "disconnect" /\ calls[c].status # "pending")
            => calls'[c].status = calls[c].status]_vars
  /\ [][(/\ lastCall' # lastCall /\ lastCall'.op = "disconnectFromRemote"
          /\ lastCall'.at = "done" /\ DisconnectsEnding = {})
         => /\ ~(socket # 0 /\ connected)
            /\ Len(calls') = Len(calls)
            /\ TornDown']_vars
  /\ [][(/\ DisconnectsEnding = {}
          /\ \E c \in 1..Len(calls) :
               /\ calls[c].kind = "disconnect" /\ calls[c].status = "resolved"
               /\ \/ ~calls[c].answered /\ calls'[c].answered
                  \/ calls[c].timer # calls'[c].timer)
         => UNCHANGED <<socket, connected, currentPath, connectionInfo,
                        selector, sockets>>]_vars

Witness_C30 ==
  \E c \in 1..Len(calls) :
    /\ calls[c].kind = "disconnect" /\ calls[c].status = "resolved"
    /\ calls[c].timer = "fired" /\ calls[c].emitted /\ ~calls[c].answered
    /\ hist.everConnected
    /\ lastCall.op = "disconnectFromRemote" /\ lastCall.at = "done"
    /\ TornDown

\* C31: one reply of the broker settles at most one request: no two calls
\* of the same operation kind were settled by the same reply message.
Claim_C31 ==
  \A c \in 1..Len(calls) : \A d \in 1..Len(calls) :
    (/\ c # d
     /\ calls[c].kind \in OpKinds /\ calls[d].kind = calls[c].kind
     /\ calls[c].status # "pending" /\ calls[d].status # "pending"
     /\ calls[c].from # 0)
      => calls[d].from # calls[c].from

\* C32: when the wait of a disconnect call ends, the channel the call was
\* issued on is closed, and no channel created after it (by a connect call
\* made during the wait) is closed by that step.
Claim_C32 ==
  [][\A c \in DisconnectsEnding :
       /\ sockets'[calls[c].sock].state = "closed"
       /\ \A s \in 1..Len(sockets) :
            (s > calls[c].sock /\ sockets[s].state # "closed")
              => sockets'[s].state # "closed"]_vars

\* C33 as claimed: in every reachable state of the Manager, if the selector is
\* 'remote' then the Remote Backend reports connected.
Orig_C33 == selector = "remote" => isConnected(Cur)

\* C33 as amended: if the selector is 'remote' then a connectToRemote has
\* succeeded, and the Remote Backend reports connected for as long as, since
\* that connect succeeded on the channel the Transport holds, no channel loss
\* or 'ssh:disconnected' was reported and no other connect or teardown ran.
Inv_C33 ==
  selector = "remote" =>
    /\ hist.everConnected
    /\ hist.clean => isConnected(Cur)

\* The selector is 'remote' while the connection is down, after a channel loss.
Witness_C33 ==
  /\ selector = "remote"
  /\ hist.everConnected
  /\ ~connected
  /\ ~isConnected(Cur)
  /\ connectionInfo.set

\* C34: in every reachable state of the Transport, isConnected() and
\* getConnectionInfo().connected return the same value, including while a
\* connect() call is in progress and after channel loss or reconnection.
Claim_C34 == isConnected(Cur) = getConnectionInfo(Cur).connected

\* C35: whenever the Transport reports connected = false (after a graceful
\* disconnect, a failed connect or an ungraceful channel loss),
\* getCurrentPath() returns the root sentinel '/' and
\* getConnectionInfo().details is empty.
Claim_C35 ==
  ~getConnectionInfo(Cur).connected =>
    /\ getCurrentPath(Cur) = "/"
    /\ ~getConnectionInfo(Cur).details.set

\* C39: in every reachable state of the Transport in which connection details
\* exist, details.currentPath equals the Transport's current path: connect,
\* changeDirectory and teardown keep the two in step.
Step_C39 ==
  getConnectionInfo(Cur).details.set
    => getConnectionInfo(Cur).details.currentPath = getCurrentPath(Cur)

\* A changeDirectory has completed on a connected Transport and moved both.
Witness_C39 ==
  /\ lastCall.op = "changeDirectory"
  /\ lastCall.at = "done"
  /\ lastCall.outcome = "ok"
  /\ connectionInfo.set
  /\ currentPath # HomePath
  /\ connectionInfo.currentPath = currentPath

\* ---- FileSystemManager.pathExists ------------------------------------------
\* Paths are strings, modelled as sequences of characters. The storage holds
\* a file a and a directory d under the root, and a file a inside d.
PathD == << "/", "d" >>

\* The contents a storage can have: an entry needs its parent directory.
Trees ==
  {t \in SUBSET {<< "/", "a" >>, PathD, << "/", "d", "/", "a" >>} :
     << "/", "d", "/", "a" >> \in t => PathD \in t}

\* The paths pathExists is asked about: /a, /d, /d/a, /d/d and /a/a.
ProbePaths ==
  {<< "/", "a" >>, PathD, << "/", "d", "/", "a" >>, << "/", "d", "/", "d" >>,
   << "/", "a", "/", "a" >>}

IsDirectory(tree, p) == p = RootSeq \/ (p = PathD /\ PathD \in tree)

\* String.prototype.lastIndexOf: the 0-based index of the last ch, or -1.
lastIndexOf(str, ch) ==
  LET I == {i \in 1..Len(str) : str[i] = ch}
  IN IF I = {} THEN -1 ELSE (CHOOSE i \in I : \A j \in I : j <= i) - 1

\* String.prototype.substring: arguments clamped to 0..length and swapped
\* when the first is the larger.
substring(str, from, to) ==
  LET clamp(n) == IF n < 0 THEN 0 ELSE IF n > Len(str) THEN Len(str) ELSE n
      lo == IF clamp(from) <= clamp(to) THEN clamp(from) ELSE clamp(to)
      hi == IF clamp(from) <= clamp(to) THEN clamp(to) ELSE clamp(from)
  IN SubSeq(str, lo + 1, hi)

\* `${targetPath}${targetPath.endsWith('/') ? '' : '/'}${fileName}`
fullPath(targetPath, fileName) ==
  targetPath
    \o (IF Len(targetPath) > 0 /\ targetPath[Len(targetPath)] = "/"
        THEN << >> ELSE << "/" >>)
    \o fileName

\* The FileItems a successful listing of directory dir returns (name, path).
ItemsOf(tree, dir) ==
  {[name |-> n, path |-> fullPath(dir, n)] :
     n \in {m \in {<< "a" >>, << "d" >>} : fullPath(dir, m) \in tree}}

\* Manager.listDirectory(dir) as pathExists awaits it: it throws when the
\* storage call fails (ok = FALSE), when dir is not a directory, and on the
\* Remote Backend when the Transport is not connected.
ListingFails(S, tree, dir, ok) ==
  \/ ~ok
  \/ ~IsDirectory(tree, dir)
  \/ (getCurrentFS(S) = "remote" /\ ~isConnected(S))

\* pathExists(path): the local branch lists the current directory and
\* compares paths; the remote branch lists the parent of path and compares
\* names; the catch block turns every failure into false.
pathExists(S, tree, cwd, ok, path) ==
  IF getCurrentFS(S) = "local"
  THEN LET fails == ListingFails(S, tree, cwd, ok)
       IN [S EXCEPT !.probed =
             [by |-> "local", tree |-> tree, cwd |-> cwd, path |-> path,
              listing |-> IF fails THEN "failed" ELSE "ok", outcome |-> "ok",
              result |-> ~fails /\ \E f \in ItemsOf(tree, cwd) :
                                      f.path = path]]
  ELSE LET slash == lastIndexOf(path, "/")
           cut == substring(path, 0, slash)
           parentPath == IF cut = << >> THEN RootSeq ELSE cut
           fileName == substring(path, slash + 1, Len(path))
           fails == ListingFails(S, tree, parentPath, ok)
       IN [S EXCEPT !.probed =
             [by |-> "remote", tree |-> tree, cwd |-> cwd, path |-> path,
              listing |-> IF fails THEN "failed" ELSE "ok", outcome |-> "ok",
              result |-> ~fails /\ \E f \in ItemsOf(tree, parentPath) :
                                      f.name = fileName]]

\* pathExists is called; the storage content, the local current directory
\* and whether the storage call succeeds are the environment's.
PathExists ==
  \E tree \in Trees : \E cwd \in {RootSeq, PathD} : \E ok \in BOOLEAN :
    \E path \in ProbePaths :
      /\ IsDirectory(tree, cwd)
      /\ Assign(pathExists(Cur, tree, cwd, ok, path))

NextExists ==
  \/ SwitchToLocal
  \/ SwitchToRemote
  \/ ConnectToRemote
  \/ Reply
  \/ SocketConnect
  \/ SocketDisconnect
  \/ PathExists

SpecExists == Init /\ [][NextExists]_vars

\* C36: Manager.pathExists(path) never rejects, and on either backend returns
\* true exactly when an entry with that path exists in the active backend,
\* for any path and not only children of the current directory; any listing
\* failure yields false.
Claim_C36 ==
  probed.by # "none" =>
    /\ probed.outcome = "ok"
    /\ probed.listing = "failed" => ~probed.result
    /\ probed.listing = "ok" => (probed.result <=> probed.path \in probed.tree)

\* The same for the remote branch alone, which lists the parent of the path.
Remote_C36 ==
  probed.by = "remote" =>
    /\ probed.outcome = "ok"
    /\ probed.listing = "failed" => ~probed.result
    /\ probed.listing = "ok" => (probed.result <=> probed.path \in probed.tree)

\* ---- the Terminal component -------------------------------------------------
\* The Terminal is mounted while the app shows a connected remote session; its
\* onExecuteCommand prop ends in the Manager's executeCommand. userCall and
\* initCall are the Transport calls its two promise chains are awaiting.
TermCalls == 5
TermConnects == 1

\* onExecuteCommand(cmd): the state after the call and the Transport call it
\* created (0 when it threw before sending anything).
Issued(S, T) == IF Len(T.calls) > Len(S.calls) THEN Len(T.calls) ELSE 0

Awaited(S, c) == c # 0 /\ S.calls[c].status = "pending"

TermConnect ==
  \E ip \in InitialPaths :
    LET T == connectToRemote(Cur, ip)
    IN Fits(T, TermCalls, TermConnects, TermCalls) /\ Assign(Observe(Cur, T))

\* Terminal.executeCommand: the Enter key with a non-empty command. The
\* finally block runs at once when onExecuteCommand threw synchronously.
TermSubmit ==
  /\ isConnected(Cur) /\ selector = "remote"
  /\ ~term.isExecuting
  /\ LET T == executeCommand(Cur)
         c == Issued(Cur, T)
     IN /\ Fits(T, TermCalls, TermConnects, TermCalls)
        /\ Assign([Observe(Cur, T) EXCEPT !.term.isExecuting = c # 0,
                                          !.term.userCall = c])

\* The await of Terminal.executeCommand returns or throws: an output or
\* error line is added and the finally block resets isExecuting.
TermSettled ==
  /\ term.userCall # 0 /\ ~Awaited(Cur, term.userCall)
  /\ Assign([Cur EXCEPT !.term.isExecuting = FALSE, !.term.userCall = 0])

\* The initialisation effect runs with isConnected and initialWorkingDirectory
\* set and hasInitializedDirectory false: it starts the one-second timer.
TermInitEffect ==
  /\ isConnected(Cur) /\ selector = "remote"
  /\ ~term.hasInitializedDirectory /\ term.init = "none"
  /\ Assign([Cur EXCEPT !.term.init = "timer"])

\* The timer fires and the chain issues 'pwd'; each then() issues the next
\* command; the last then() and the catch() set hasInitializedDirectory.
TermInitStep ==
  /\ term.init \in {"timer", "pwd", "cd", "pwd2"}
  /\ ~Awaited(Cur, term.initCall)
  /\ LET failed == term.initCall # 0 /\ calls[term.initCall].status = "rejected"
         T == executeCommand(Cur)
         c == Issued(Cur, T)
         next == CASE term.init = "timer" -> "pwd"
                   [] term.init = "pwd" -> "cd"
                   [] OTHER -> "pwd2"
     IN IF failed \/ term.init = "pwd2"
        THEN Assign([Cur EXCEPT !.term.hasInitializedDirectory = TRUE,
                                !.term.init = "done", !.term.initCall = 0])
        ELSE /\ Fits(T, TermCalls, TermConnects, TermCalls)
             /\ Assign(IF c = 0
                       THEN [Observe(Cur, T) EXCEPT
                               !.term.hasInitializedDirectory = TRUE,
                               !.term.init = "done", !.term.initCall = 0]
                       ELSE [Observe(Cur, T) EXCEPT !.term.init = next,
                                                    !.term.initCall = c])

NextTerminal ==
  \/ TermConnect
  \/ TermSubmit
  \/ TermSettled
  \/ TermInitEffect
  \/ TermInitStep
  \/ Timeout
  \/ Reply
  \/ SocketConnect

SpecTerminal == Init /\ [][NextTerminal]_vars

\* C37: the Terminal serializes its command requests: at any time at most
\* one executeCommand issued through the Terminal, by the user or by its
\* initialisation sequence pwd, cd, pwd, is outstanding on the Transport.
Claim_C37 ==
  Cardinality({c \in {term.userCall, term.initCall} : Awaited(Cur, c)}) <= 1

\* The user's commands alone are serialized by isExecuting.
User_C37 ==
  /\ term.userCall # 0 => term.isExecuting
  /\ Cardinality({c \in 1..Len(calls) :
                    /\ calls[c].kind = "exec" /\ calls[c].status = "pending"
                    /\ c # term.initCall}) <= 1

\* ---- SecureCredentialStore ---------------------------------------------------
\* vault.list is the parsed 'ssh_credentials' item (a record per credential:
\* its id and whether lastUsed is set), vault.secrets the ids that have an
\* 'ssh_password_<id>' item, vault.ops the calls made: kind, id, the await
\* the call is suspended at, and its local copy of the list.
MaxVaultOps == 3
MaxVaultIds == 2

\* A call starts and runs to its first await. saveCredentials has generated
\* its id and is writing the password item; the other two are reading the
\* list in getAllCredentials.
VaultStart(S, kind, id) ==
  [S EXCEPT !.vault.ops =
     Append(@, [kind |-> kind, id |-> id, snap |-> {},
                pc |-> IF kind = "save" THEN "setSecret" ELSE "getList"])]

\* The await that call i is suspended at completes and the call runs on to
\* its next await or to its end.
VaultAdvance(S, i) ==
  LET o == S.vault.ops[i]
      id == o.id
  IN CASE o.pc = "setSecret" ->
            [S EXCEPT !.vault.secrets = @ \cup {id},
                      !.vault.ops[i].pc = "getList"]
       [] o.pc = "getList" ->
            [S EXCEPT !.vault.ops[i].snap = S.vault.list,
                      !.vault.ops[i].pc = "setList"]
       [] o.pc = "setList" /\ o.kind = "save" ->
            [S EXCEPT !.vault.list = o.snap \cup {[id |-> id, lastUsed |-> FALSE]},
                      !.vault.ops[i].pc = "done"]
       [] o.pc = "setList" /\ o.kind = "update" ->
            [S EXCEPT !.vault.list =
                        {IF c.id = id THEN [c EXCEPT !.lastUsed = TRUE] ELSE c :
                           c \in o.snap},
                      !.vault.ops[i].pc = "done"]
       [] o.pc = "setList" /\ o.kind = "delete" ->
            [S EXCEPT !.vault.list = {c \in o.snap : c.id # id},
                      !.vault.ops[i].pc = "deleteSecret"]
       [] o.pc = "deleteSecret" ->
            [S EXCEPT !.vault.secrets = @ \ {id},
                      !.vault.ops[i].pc = "deleteKey"]
       [] OTHER -> [S EXCEPT !.vault.ops[i].pc = "done"]

\* getCredentials(id) on a keystore no call is writing: null when the list
\* has no record with that id, else the record with its password item.
getCredentials(S, id) ==
  IF \A c \in S.vault.list : c.id # id
  THEN [found |-> FALSE, password |-> FALSE]
  ELSE [found |-> TRUE, password |-> id \in S.vault.secrets]

Completed(kind, id) ==
  \E i \in 1..Len(vault.ops) :
    /\ vault.ops[i].kind = kind /\ vault.ops[i].id = id
    /\ vault.ops[i].pc = "done"

\* saveCredentials generates a fresh id; updateLastUsed and
\* deleteCredentials are given an id that a completed save returned.
VaultCall ==
  \E kind \in {"save", "update", "delete"} : \E id \in 1..MaxVaultIds :
    /\ Len(vault.ops) < MaxVaultOps
    /\ IF kind = "save"
       THEN \A i \in 1..Len(vault.ops) :
              ~(vault.ops[i].kind = "save" /\ vault.ops[i].id = id)
       ELSE Completed("save", id)
    /\ Assign(VaultStart(Cur, kind, id))

VaultStep ==
  \E i \in 1..Len(vault.ops) :
    /\ vault.ops[i].pc # "done"
    /\ Assign(VaultAdvance(Cur, i))

NextVault ==
  \/ VaultCall
  \/ VaultStep

SpecVault == Init /\ [][NextVault]_vars

\* C38: after any set of saveCredentials, updateLastUsed and deleteCredentials
\* calls has completed, in any interleaving of their asynchronous steps, the
\* stored list contains every record whose save completed and that was not
\* deleted, getCredentials(id) returns it with its secret, and
\* getCredentials of an unknown or deleted id returns null.
Claim_C38 ==
  (\A i \in 1..Len(vault.ops) : vault.ops[i].pc = "done") =>
    \A id \in 1..MaxVaultIds :
      IF Completed("save", id) /\ ~Completed("delete", id)
      THEN getCredentials(Cur, id) = [found |-> TRUE, password |-> TRUE]
      ELSE ~getCredentials(Cur, id).found

====
